---- MODULE Spec2Model ----
(***************************************************************************)
(* Model of package stats (src/stats/sample.go): the Sample type, the      *)
(* free functions Bounds, Sum, Mean, StdDev and the Sample methods Bounds, *)
(* Sum, Weight, Mean, StdDev, Percentile, IQR, Sort and Copy.              *)
(*                                                                         *)
(* float64 values are modelled as pairs <<n, d>>: a finite value is the    *)
(* reduced fraction n/d with d > 0, and the three IEEE specials are        *)
(* NaN = <<0,0>>, +Inf = <<1,0>>, -Inf = <<-1,0>>.  Arithmetic on finite   *)
(* values is exact (no rounding, no overflow, no signed zero); every       *)
(* operation involving a special follows IEEE 754.                         *)
(*                                                                         *)
(* Slices are modelled as addresses into a heap of backing arrays, so      *)
(* that two Samples sharing storage is something the model can express.    *)
(* Address 0 is the nil slice.                                             *)
(***************************************************************************)
EXTENDS Integers, Sequences, FiniteSets, TLC

VARIABLES heap, s, c, last, writes

vars == <<heap, s, c, last, writes>>

(***************************************************************************)
(* Bounds of the model.                                                    *)
(***************************************************************************)
MaxLen == 3

MaxVal == 1

MaxW == 1

MaxLenWrite == 2

MaxWrites == 1

(***************************************************************************)
(* float64                                                                 *)
(***************************************************************************)
NaN == <<0, 0>>

PInf == <<1, 0>>

NInf == <<-1, 0>>

Zero == <<0, 1>>

IsNaN(a) == a = NaN

IsInf(a) == a = PInf \/ a = NInf

IsFinite(a) == a[2] > 0

Abs(n) == IF n < 0 THEN -n ELSE n

Sign(n) == IF n < 0 THEN -1 ELSE IF n > 0 THEN 1 ELSE 0

RECURSIVE GCD(_, _)
GCD(a, b) == IF b = 0 THEN a ELSE GCD(b, a % b)

Frac(n, d) ==
    LET g == GCD(Abs(n), d)
    IN  <<Sign(n) * (Abs(n) \div g), d \div g>>

FromInt(k) == <<k, 1>>

FNeg(a) == <<-a[1], a[2]>>

FAdd(a, b) ==
    IF IsNaN(a) \/ IsNaN(b) THEN NaN
    ELSE IF IsInf(a) /\ IsInf(b) THEN (IF a = b THEN a ELSE NaN)
    ELSE IF IsInf(a) THEN a
    ELSE IF IsInf(b) THEN b
    ELSE Frac(a[1] * b[2] + b[1] * a[2], a[2] * b[2])

FSub(a, b) == FAdd(a, FNeg(b))

FMul(a, b) ==
    IF IsNaN(a) \/ IsNaN(b) THEN NaN
    ELSE IF IsInf(a) \/ IsInf(b)
         THEN (IF a[1] = 0 \/ b[1] = 0 THEN NaN
               ELSE <<Sign(a[1]) * Sign(b[1]), 0>>)
    ELSE Frac(a[1] * b[1], a[2] * b[2])

FDiv(a, b) ==
    IF IsNaN(a) \/ IsNaN(b) THEN NaN
    ELSE IF IsInf(a) /\ IsInf(b) THEN NaN
    ELSE IF IsInf(a) THEN (IF b[1] < 0 THEN FNeg(a) ELSE a)
    ELSE IF IsInf(b) THEN Zero
    ELSE IF b[1] = 0 THEN <<Sign(a[1]), 0>>
    ELSE Frac(Sign(b[1]) * a[1] * b[2], a[2] * Abs(b[1]))

FLt(a, b) ==
    IF IsNaN(a) \/ IsNaN(b) THEN FALSE
    ELSE IF a = b THEN FALSE
    ELSE IF a = NInf \/ b = PInf THEN TRUE
    ELSE IF a = PInf \/ b = NInf THEN FALSE
    ELSE a[1] * b[2] < b[1] * a[2]

FGt(a, b) == FLt(b, a)

FLe(a, b) == ~IsNaN(a) /\ ~IsNaN(b) /\ ~FLt(b, a)

FGe(a, b) == FLe(b, a)

Isqrt(k) == CHOOSE r \in 0..k : r * r <= k /\ k < (r + 1) * (r + 1)

Sqrt(a) ==
    IF IsNaN(a) THEN NaN
    ELSE IF a[1] < 0 THEN NaN
    ELSE IF a = PInf THEN PInf
    ELSE Frac(Isqrt(a[1] * a[2]), a[2])

ToInt(a) == Sign(a[1]) * (Abs(a[1]) \div a[2])

(***************************************************************************)
(* The free functions on []float64.                                        *)
(***************************************************************************)
RECURSIVE BoundsLoop(_, _, _)
BoundsLoop(xs, i, mm) ==
    IF i > Len(xs) THEN mm
    ELSE LET x == xs[i]
             min == IF FLt(x, mm[1]) THEN x ELSE mm[1]
             max == IF FGt(x, mm[2]) THEN x ELSE mm[2]
         IN  BoundsLoop(xs, i + 1, <<min, max>>)

Bounds(xs) ==
    IF Len(xs) = 0 THEN <<NaN, NaN>>
    ELSE BoundsLoop(xs, 1, <<xs[1], xs[1]>>)

RECURSIVE SumLoop(_, _, _)
SumLoop(xs, i, sum) ==
    IF i > Len(xs) THEN sum
    ELSE SumLoop(xs, i + 1, FAdd(sum, xs[i]))

Sum(xs) == SumLoop(xs, 1, Zero)

RECURSIVE MeanLoop(_, _, _)
MeanLoop(xs, i, m) ==
    IF i > Len(xs) THEN m
    ELSE MeanLoop(xs, i + 1, FAdd(m, FDiv(FSub(xs[i], m), FromInt(i))))

Mean(xs) ==
    IF Len(xs) = 0 THEN NaN
    ELSE MeanLoop(xs, 1, Zero)

RECURSIVE StdDevLoop(_, _, _, _, _)
StdDevLoop(xs, i, A, Q, k) ==
    IF i > Len(xs) THEN <<Q, k>>
    ELSE LET x == xs[i]
             Anext == FAdd(A, FDiv(FSub(x, A), FromInt(k)))
             Qnext == FAdd(Q, FMul(FSub(x, A), FSub(x, Anext)))
         IN  StdDevLoop(xs, i + 1, Anext, Qnext, k + 1)

StdDev(xs) ==
    IF Len(xs) = 0 THEN NaN
    ELSE LET r == StdDevLoop(xs, 1, Zero, Zero, 0)
         IN  Sqrt(FDiv(r[1], FromInt(r[2] - 1)))

(***************************************************************************)
(* Slices and the heap.  A Sample is [Xs, Weights, Sorted] where Xs and    *)
(* Weights are addresses of backing arrays.                                *)
(***************************************************************************)
NilAddr == 0

OrigXs == 1

OrigWeights == 2

CopyXs == 3

CopyWeights == 4

TmpXs == 5

TmpWeights == 6

Addrs == NilAddr..TmpWeights

XsOf(h, smp) == h[smp.Xs]

WeightsOf(h, smp) == h[smp.Weights]

(***************************************************************************)
(* Sample.Bounds                                                           *)
(***************************************************************************)
RECURSIVE FirstNonZero(_, _)
FirstNonZero(ws, i) ==
    IF i > Len(ws) THEN 0
    ELSE IF ws[i] # Zero THEN i
    ELSE FirstNonZero(ws, i + 1)

RECURSIVE LastNonZero(_, _)
LastNonZero(ws, i) ==
    IF i < 1 THEN 0
    ELSE IF ws[i] # Zero THEN i
    ELSE LastNonZero(ws, i - 1)

RECURSIVE WeightedBoundsLoop(_, _, _, _)
WeightedBoundsLoop(xs, ws, i, mm) ==
    IF i > Len(xs) THEN mm
    ELSE LET x == xs[i]
             w == ws[i]
             min == IF FLt(x, mm[1]) /\ w # Zero THEN x ELSE mm[1]
             max == IF FGt(x, mm[2]) /\ w # Zero THEN x ELSE mm[2]
         IN  WeightedBoundsLoop(xs, ws, i + 1, <<min, max>>)

(* Faulty variant of SortedWeightedBounds: the ends of Xs, whatever their   *)
(* weights.                                                                *)
SortedBoundsIgnoringWeights(xs, ws) == <<xs[1], xs[Len(xs)]>>

SortedWeightedBounds(xs, ws) ==
    LET i == FirstNonZero(ws, 1)
        min == IF i = 0 THEN NaN ELSE xs[i]
        j == LastNonZero(ws, Len(ws))
    IN  IF IsNaN(min) THEN <<NaN, NaN>>
        ELSE <<min, IF j = 0 THEN NaN ELSE xs[j]>>

UnsortedWeightedBounds(xs, ws) ==
    LET mm == WeightedBoundsLoop(xs, ws, 1, <<PInf, NInf>>)
    IN  IF IsInf(mm[1]) THEN <<NaN, NaN>> ELSE mm

SampleBounds(h, smp) ==
    LET xs == XsOf(h, smp)
        ws == WeightsOf(h, smp)
    IN  IF Len(xs) = 0 \/ (~smp.Sorted /\ smp.Weights = NilAddr) THEN Bounds(xs)
        ELSE IF smp.Sorted
             THEN (IF smp.Weights = NilAddr THEN <<xs[1], xs[Len(xs)]>>
                   ELSE SortedWeightedBounds(xs, ws))
        ELSE UnsortedWeightedBounds(xs, ws)

(***************************************************************************)
(* Sample.Sum, Sample.Weight, Sample.Mean, Sample.StdDev                   *)
(***************************************************************************)
RECURSIVE WeightedSumLoop(_, _, _, _)
WeightedSumLoop(xs, ws, i, sum) ==
    IF i > Len(xs) THEN sum
    ELSE WeightedSumLoop(xs, ws, i + 1, FAdd(sum, FMul(xs[i], ws[i])))

SampleSum(h, smp) ==
    IF smp.Weights = NilAddr THEN Sum(XsOf(h, smp))
    ELSE WeightedSumLoop(XsOf(h, smp), WeightsOf(h, smp), 1, Zero)

SampleWeight(h, smp) ==
    IF smp.Weights = NilAddr THEN FromInt(Len(XsOf(h, smp)))
    ELSE Sum(WeightsOf(h, smp))

RECURSIVE WeightedMeanLoop(_, _, _, _, _)
WeightedMeanLoop(xs, ws, i, m, wsum) ==
    IF i > Len(xs) THEN m
    ELSE LET w == ws[i]
             wsum2 == FAdd(wsum, w)
             m2 == FAdd(m, FDiv(FMul(FSub(xs[i], m), w), wsum2))
         IN  WeightedMeanLoop(xs, ws, i + 1, m2, wsum2)

SampleMean(h, smp) ==
    IF Len(XsOf(h, smp)) = 0 \/ smp.Weights = NilAddr THEN Mean(XsOf(h, smp))
    ELSE WeightedMeanLoop(XsOf(h, smp), WeightsOf(h, smp), 1, Zero, Zero)

StdDevPanics(h, smp) == ~(Len(XsOf(h, smp)) = 0 \/ smp.Weights = NilAddr)

SampleStdDev(h, smp) == StdDev(XsOf(h, smp))

(***************************************************************************)
(* sort.Float64sAreSorted, sort.Float64s and sort.Sort(&sampleSorter{..}). *)
(* For slices of fewer than 12 elements the library sorts by insertion:    *)
(*   for i := 1; i < n; i++ {                                              *)
(*     for j := i; j > 0 && Less(j, j-1); j-- { Swap(j, j-1) } }           *)
(* Indices here are 1-based.                                               *)
(***************************************************************************)
Float64Less(xs, i, j) ==
    FLt(xs[i], xs[j]) \/ (IsNaN(xs[i]) /\ ~IsNaN(xs[j]))

Float64sAreSorted(xs) ==
    \A i \in 2..Len(xs) : ~Float64Less(xs, i, i - 1)

Float64Swap(xs, i, j) == [xs EXCEPT ![i] = xs[j], ![j] = xs[i]]

RECURSIVE Float64Insert(_, _)
Float64Insert(xs, j) ==
    IF j > 1 /\ Float64Less(xs, j, j - 1)
    THEN Float64Insert(Float64Swap(xs, j, j - 1), j - 1)
    ELSE xs

RECURSIVE Float64sFrom(_, _)
Float64sFrom(xs, i) ==
    IF i > Len(xs) THEN xs
    ELSE Float64sFrom(Float64Insert(xs, i), i + 1)

Float64s(xs) == Float64sFrom(xs, 2)

SorterLess(p, i, j) == FLt(p.xs[i], p.xs[j])

SorterSwap(p, i, j) ==
    [xs |-> [p.xs EXCEPT ![i] = p.xs[j], ![j] = p.xs[i]],
     weights |-> [p.weights EXCEPT ![i] = p.weights[j], ![j] = p.weights[i]]]

RECURSIVE SorterInsert(_, _)
SorterInsert(p, j) ==
    IF j > 1 /\ SorterLess(p, j, j - 1)
    THEN SorterInsert(SorterSwap(p, j, j - 1), j - 1)
    ELSE p

RECURSIVE SortSorterFrom(_, _)
SortSorterFrom(p, i) ==
    IF i > Len(p.xs) THEN p
    ELSE SortSorterFrom(SorterInsert(p, i), i + 1)

SortSorter(p) == SortSorterFrom(p, 2)

(***************************************************************************)
(* Sample.Sort (pointer receiver: writes the backing arrays and the flag)  *)
(* and Sample.Copy (ax, aw: the addresses make() returns).  Both return    *)
(* the heap after the call and the resulting Sample.                       *)
(***************************************************************************)
Sort(h, smp) ==
    LET xs == XsOf(h, smp)
        h2 == IF smp.Sorted \/ Float64sAreSorted(xs) THEN h
              ELSE IF smp.Weights = NilAddr
                   THEN [h EXCEPT ![smp.Xs] = Float64s(xs)]
              ELSE LET p == SortSorter([xs |-> xs, weights |-> WeightsOf(h, smp)])
                   IN  [h EXCEPT ![smp.Xs] = p.xs, ![smp.Weights] = p.weights]
    IN  [h |-> h2, smp |-> [smp EXCEPT !.Sorted = TRUE]]

(* Faulty variant of Copy: a new struct over the receiver's slices.         *)
CopyShallow(h, smp, ax, aw) == [h |-> h, smp |-> smp]

Copy(h, smp, ax, aw) ==
    LET h2 == [h EXCEPT ![ax] = XsOf(h, smp)]
    IN  IF smp.Weights # NilAddr
        THEN [h |-> [h2 EXCEPT ![aw] = WeightsOf(h, smp)],
              smp |-> [Xs |-> ax, Weights |-> aw, Sorted |-> smp.Sorted]]
        ELSE [h |-> h2,
              smp |-> [Xs |-> ax, Weights |-> NilAddr, Sorted |-> smp.Sorted]]

(***************************************************************************)
(* Sample.Percentile and Sample.IQR (value receivers: the struct is a      *)
(* copy, the backing arrays are the caller's).  They return the result     *)
(* and the heap after the call.                                            *)
(***************************************************************************)
RECURSIVE PercentileScan(_, _, _, _)
PercentileScan(xs, ws, i, target) ==
    IF i > Len(ws) THEN xs[Len(xs)]
    ELSE LET t2 == FSub(target, ws[i])
         IN  IF FLt(t2, Zero) THEN xs[i]
             ELSE PercentileScan(xs, ws, i + 1, t2)

PercentileSorted(h, smp, pctile) ==
    LET xs == XsOf(h, smp)
    IN  IF smp.Weights = NilAddr
        THEN xs[ToInt(FMul(pctile, FromInt(Len(xs) - 1))) + 1]
        ELSE PercentileScan(xs, WeightsOf(h, smp), 1,
                            FMul(SampleWeight(h, smp), pctile))

(* Faulty variants of EnsureSorted: Sort without Copy, and no Sort at all.  *)
EnsureSortedInPlace(h, smp) ==
    IF ~smp.Sorted THEN Sort(h, smp) ELSE [h |-> h, smp |-> smp]

EnsureSortedSkipped(h, smp) == [h |-> h, smp |-> smp]

(* if !s.Sorted { s = *s.Copy().Sort() } *)
EnsureSorted(h, smp) ==
    IF ~smp.Sorted
    THEN LET cp == Copy(h, smp, TmpXs, TmpWeights)
         IN  Sort(cp.h, cp.smp)
    ELSE [h |-> h, smp |-> smp]

Percentile(h, smp, pctile) ==
    IF Len(XsOf(h, smp)) = 0 THEN [ret |-> NaN, h |-> h]
    ELSE IF FLe(pctile, Zero) THEN [ret |-> SampleBounds(h, smp)[1], h |-> h]
    ELSE IF FGe(pctile, FromInt(1)) THEN [ret |-> SampleBounds(h, smp)[2], h |-> h]
    ELSE LET r == EnsureSorted(h, smp)
         IN  [ret |-> PercentileSorted(r.h, r.smp, pctile), h |-> r.h]

IQR(h, smp) ==
    LET r == EnsureSorted(h, smp)
        hi == Percentile(r.h, r.smp, <<3, 4>>)
        lo == Percentile(hi.h, r.smp, <<1, 4>>)
    IN  [ret |-> FSub(hi.ret, lo.ret), h |-> lo.h]

(***************************************************************************)
(* The caller.  s is the caller's Sample, c the Sample the last Copy       *)
(* returned (c.Xs = NilAddr before the first Copy).  last records the      *)
(* call in progress: which method, on which Sample, its argument, the      *)
(* contents of the receiver before the call and the value returned; the    *)
(* caller takes the result (Return) before it makes the next call.         *)
(* writes counts the caller's direct element assignments.                  *)
(***************************************************************************)
FinVals == {FromInt(k) : k \in 0..MaxVal}

Vals == FinVals \cup {NaN}

WVals == {FromInt(k) : k \in 0..MaxW}

PSet == {<<-1, 2>>, <<0, 1>>, <<1, 4>>, <<1, 2>>, <<3, 4>>, <<1, 1>>, <<3, 2>>}

(* The values the caller assigns to elements: a value below every value of  *)
(* the initial Sample, and a weight above every initial weight.            *)
XWrites == {FromInt(-1)}

WWrites == {FromInt(MaxW + 1)}

Targets == {"s", "c"}

NoSample == [Xs |-> NilAddr, Weights |-> NilAddr, Sorted |-> FALSE]

Recv(t) == IF t = "s" THEN s ELSE c

View(h, smp) ==
    [Xs |-> XsOf(h, smp), Weights |-> WeightsOf(h, smp),
     HasW |-> smp.Weights # NilAddr, Sorted |-> smp.Sorted]

Release(h) == [h EXCEPT ![TmpXs] = <<>>, ![TmpWeights] = <<>>]

Call(op, t, p, ret) ==
    [op |-> op, on |-> t, p |-> p, pre |-> View(heap, Recv(t)), ret |-> ret]

Idle ==
    [op |-> "idle", on |-> "s", p |-> Zero,
     pre |-> View([a \in Addrs |-> <<>>], NoSample), ret |-> <<NaN, NaN>>]

CanCall(t) == last = Idle /\ (t = "c" => c.Xs # NilAddr)

InitLen(maxlen) ==
    \E n \in 0..maxlen, hasW \in BOOLEAN, sorted \in BOOLEAN :
      \E xs \in [1..n -> Vals], ws \in [1..(IF hasW THEN n ELSE 0) -> WVals] :
        /\ sorted => Float64sAreSorted(xs)
        /\ heap = [a \in Addrs |-> IF a = OrigXs THEN xs
                                   ELSE IF a = OrigWeights THEN ws
                                   ELSE <<>>]
        /\ s = [Xs |-> OrigXs,
                Weights |-> IF hasW THEN OrigWeights ELSE NilAddr,
                Sorted |-> sorted]
        /\ c = NoSample
        /\ last = Idle
        /\ writes = 0

Init == InitLen(MaxLen)

InitWrite == InitLen(MaxLenWrite)

CallBounds(t) ==
    /\ CanCall(t)
    /\ last' = Call("Bounds", t, Zero, SampleBounds(heap, Recv(t)))
    /\ UNCHANGED <<heap, s, c, writes>>

CallSum(t) ==
    /\ CanCall(t)
    /\ LET r == SampleSum(heap, Recv(t))
       IN  last' = Call("Sum", t, Zero, <<r, r>>)
    /\ UNCHANGED <<heap, s, c, writes>>

CallWeight(t) ==
    /\ CanCall(t)
    /\ LET r == SampleWeight(heap, Recv(t))
       IN  last' = Call("Weight", t, Zero, <<r, r>>)
    /\ UNCHANGED <<heap, s, c, writes>>

CallMean(t) ==
    /\ CanCall(t)
    /\ LET r == SampleMean(heap, Recv(t))
       IN  last' = Call("Mean", t, Zero, <<r, r>>)
    /\ UNCHANGED <<heap, s, c, writes>>

CallStdDev(t) ==
    /\ CanCall(t)
    /\ IF StdDevPanics(heap, Recv(t))
       THEN last' = Call("panic", t, Zero, <<NaN, NaN>>)
       ELSE LET r == SampleStdDev(heap, Recv(t))
            IN  last' = Call("StdDev", t, Zero, <<r, r>>)
    /\ UNCHANGED <<heap, s, c, writes>>

CallPercentile(t, pctile) ==
    /\ CanCall(t)
    /\ LET r == Percentile(heap, Recv(t), pctile)
       IN  /\ last' = Call("Percentile", t, pctile, <<r.ret, r.ret>>)
           /\ heap' = Release(r.h)
    /\ UNCHANGED <<s, c, writes>>

CallIQR(t) ==
    /\ CanCall(t)
    /\ LET r == IQR(heap, Recv(t))
       IN  /\ last' = Call("IQR", t, Zero, <<r.ret, r.ret>>)
           /\ heap' = Release(r.h)
    /\ UNCHANGED <<s, c, writes>>

CallSort(t) ==
    /\ CanCall(t)
    /\ LET r == Sort(heap, Recv(t))
       IN  /\ heap' = r.h
           /\ IF t = "s" THEN s' = r.smp /\ c' = c
                         ELSE c' = r.smp /\ s' = s
    /\ last' = Call("Sort", t, Zero, <<NaN, NaN>>)
    /\ UNCHANGED writes

CallCopy(t) ==
    /\ CanCall(t)
    /\ LET r == Copy(heap, Recv(t), CopyXs, CopyWeights)
       IN  /\ heap' = IF r.smp.Weights = NilAddr
                      THEN [r.h EXCEPT ![CopyWeights] = <<>>]
                      ELSE r.h
           /\ c' = r.smp
    /\ s' = s
    /\ last' = Call("Copy", t, Zero, <<NaN, NaN>>)
    /\ UNCHANGED writes

WriteX(t, i, v) ==
    /\ CanCall(t)
    /\ c.Xs # NilAddr
    /\ writes < MaxWrites
    /\ i \in 1..Len(XsOf(heap, Recv(t)))
    /\ heap' = [heap EXCEPT ![Recv(t).Xs][i] = v]
    /\ last' = Call("WriteX", t, Zero, <<NaN, NaN>>)
    /\ writes' = writes + 1
    /\ UNCHANGED <<s, c>>

WriteW(t, i, w) ==
    /\ CanCall(t)
    /\ c.Xs # NilAddr
    /\ writes < MaxWrites
    /\ Recv(t).Weights # NilAddr
    /\ i \in 1..Len(WeightsOf(heap, Recv(t)))
    /\ heap' = [heap EXCEPT ![Recv(t).Weights][i] = w]
    /\ last' = Call("WriteW", t, Zero, <<NaN, NaN>>)
    /\ writes' = writes + 1
    /\ UNCHANGED <<s, c>>

Return ==
    /\ last.op \notin {"idle", "panic"}
    /\ last' = Idle
    /\ UNCHANGED <<heap, s, c, writes>>

Accessor(t) ==
    \/ CallBounds(t)
    \/ CallSum(t)
    \/ CallWeight(t)
    \/ CallMean(t)
    \/ CallStdDev(t)
    \/ \E pctile \in PSet : CallPercentile(t, pctile)
    \/ CallIQR(t)

(* One Sample: the accessors and Sort on s. *)
Next ==
    \/ Return
    \/ Accessor("s")
    \/ CallSort("s")

Spec == Init /\ [][Next]_vars

(* A Sample and its copies: every method on s and on c. *)
NextCopy ==
    \/ Return
    \/ \E t \in Targets : Accessor(t) \/ CallSort(t) \/ CallCopy(t)

SpecCopy == Init /\ [][NextCopy]_vars

(* c = s.Copy() once, then Sort and the caller's element assignments on s   *)
(* and on c, in any order.                                                 *)
NextWrite ==
    \/ Return
    \/ c.Xs = NilAddr /\ CallCopy("s")
    \/ \E t \in Targets :
         \/ CallSort(t)
         \/ \E i \in 1..MaxLenWrite, v \in XWrites : WriteX(t, i, v)
         \/ \E i \in 1..MaxLenWrite, w \in WWrites : WriteW(t, i, w)

SpecWrite == InitWrite /\ [][NextWrite]_vars

(***************************************************************************)
(* Vocabulary of the properties.  A view is the contents of a Sample:      *)
(* [Xs, Weights, HasW, Sorted].                                            *)
(***************************************************************************)
AllFinite(xs) == \A i \in 1..Len(xs) : IsFinite(xs[i])

(* No element is less than an earlier one. *)
NonDecreasing(xs) ==
    \A i, j \in 1..Len(xs) : i < j => ~FLt(xs[j], xs[i])

Constant(xs) == \A i \in 1..Len(xs) : xs[i] = xs[1]

AllZero(ws) == \A i \in 1..Len(ws) : ws[i] = Zero

TotalWeight(v) == IF v.HasW THEN Sum(v.Weights) ELSE FromInt(Len(v.Xs))

RECURSIVE KeepNonZero(_, _, _)
KeepNonZero(xs, ws, i) ==
    IF i > Len(xs) THEN <<>>
    ELSE IF ws[i] # Zero THEN <<xs[i]>> \o KeepNonZero(xs, ws, i + 1)
    ELSE KeepNonZero(xs, ws, i + 1)

(* The view with every zero-weight entry deleted. *)
DropZero(v) ==
    [v EXCEPT !.Xs = KeepNonZero(v.Xs, v.Weights, 1),
              !.Weights = KeepNonZero(v.Weights, v.Weights, 1)]

HeapOf(v) ==
    [a \in Addrs |-> IF a = OrigXs THEN v.Xs
                     ELSE IF a = OrigWeights THEN v.Weights
                     ELSE <<>>]

SampleOf(v) ==
    [Xs |-> OrigXs, Weights |-> IF v.HasW THEN OrigWeights ELSE NilAddr,
     Sorted |-> v.Sorted]

BoundsOfView(v) == SampleBounds(HeapOf(v), SampleOf(v))

MeanOfView(v) == SampleMean(HeapOf(v), SampleOf(v))

PercentileOfView(v, pctile) == Percentile(HeapOf(v), SampleOf(v), pctile).ret

(* Values of the entries with non-zero weight, and their least and greatest. *)
Supported(v) == {v.Xs[i] : i \in {j \in 1..Len(v.Xs) : v.Weights[j] # Zero}}

LeastOf(S) == CHOOSE x \in S : \A y \in S : ~FLt(y, x)

GreatestOf(S) == CHOOSE x \in S : \A y \in S : ~FLt(x, y)

(* How often the pair (x, w) occurs in a view. *)
PairCount(v, x, w) ==
    Cardinality({i \in 1..Len(v.Xs) :
                   v.Xs[i] = x /\ (v.HasW => v.Weights[i] = w)})

SamePairs(v1, v2) ==
    /\ Len(v1.Xs) = Len(v2.Xs)
    /\ v1.HasW = v2.HasW
    /\ Len(v1.Weights) = Len(v2.Weights)
    /\ \A i \in 1..Len(v1.Xs) :
         LET x == v1.Xs[i]
             w == IF v1.HasW THEN v1.Weights[i] ELSE Zero
         IN  PairCount(v1, x, w) = PairCount(v2, x, w)

AccessorOps == {"Bounds", "Sum", "Weight", "Mean", "StdDev", "Percentile", "IQR"}

MutatorOps == {"Sort", "WriteX", "WriteW"}

(***************************************************************************)
(* C1: StdDev of an unweighted sequence of more than one element, all      *)
(* equal to the same finite value, is 0.                                   *)
(***************************************************************************)
StdDevOfConstantIsZero ==
    (/\ last.op = "StdDev"
     /\ ~last.pre.HasW
     /\ Len(last.pre.Xs) > 1
     /\ AllFinite(last.pre.Xs)
     /\ Constant(last.pre.Xs))
    => last.ret[1] = Zero

(***************************************************************************)
(* C2: the Mean of a weighted Sample of positive total weight equals the   *)
(* Mean of the Sample with every zero-weight entry deleted (stated here    *)
(* for Samples of finite values).                                          *)
(***************************************************************************)
MeanIgnoresZeroWeights ==
    (/\ last.op = "Mean"
     /\ last.pre.HasW
     /\ AllFinite(last.pre.Xs)
     /\ FGt(TotalWeight(last.pre), Zero))
    => last.ret[1] = MeanOfView(DropZero(last.pre))

(***************************************************************************)
(* C3: Percentile(p) of a Sample that is empty, or whose weights are       *)
(* present and all 0, is NaN for every p.                                  *)
(***************************************************************************)
PercentileOfNoSupportIsNaN ==
    (/\ last.op = "Percentile"
     /\ \/ Len(last.pre.Xs) = 0
        \/ last.pre.HasW /\ AllZero(last.pre.Weights))
    => IsNaN(last.ret[1])

(***************************************************************************)
(* C4: Bounds of a weighted Sample of finite values is (min, max) over     *)
(* exactly the entries of non-zero weight, (NaN, NaN) when there is none,  *)
(* and the sorted path and the linear scan agree.                          *)
(***************************************************************************)
WeightedBoundsOverSupport ==
    (/\ last.op = "Bounds"
     /\ last.pre.HasW
     /\ AllFinite(last.pre.Xs))
    => /\ last.ret = IF Supported(last.pre) = {} THEN <<NaN, NaN>>
                     ELSE <<LeastOf(Supported(last.pre)),
                            GreatestOf(Supported(last.pre))>>
       /\ last.ret = BoundsOfView([last.pre EXCEPT !.Sorted = FALSE])
       /\ NonDecreasing(last.pre.Xs)
            => last.ret = BoundsOfView([last.pre EXCEPT !.Sorted = TRUE])

(* C4 witness: Bounds took the sorted path on a weighted Sample and a      *)
(* zero-weight entry at an end was passed over.                            *)
WeightedBoundsWitness ==
    /\ last.op = "Bounds"
    /\ last.pre.HasW
    /\ last.pre.Sorted
    /\ AllFinite(last.pre.Xs)
    /\ Len(last.pre.Xs) = MaxLen
    /\ ~IsNaN(last.ret[1])
    /\ last.ret # Bounds(last.pre.Xs)

(***************************************************************************)
(* C5: a call of Bounds, Sum, Weight, Mean, StdDev, Percentile or IQR      *)
(* leaves the Sample's Xs (order included), Weights and Sorted as they     *)
(* were.                                                                   *)
(***************************************************************************)
AccessorsLeaveSampleUnchanged ==
    [][last'.op \in AccessorOps
         => /\ s' = s
            /\ View(heap', s') = View(heap, s)
            /\ c' = c
            /\ View(heap', c') = View(heap, c)]_vars

(* C5 witness: Percentile, strictly inside (0, 1), was called on a Sample  *)
(* that is out of order and not flagged Sorted, and it is still so.        *)
AccessorOnUnsortedWitness ==
    /\ last.op = "Percentile"
    /\ FLt(Zero, last.p) /\ FLt(last.p, FromInt(1))
    /\ ~last.pre.Sorted
    /\ ~NonDecreasing(last.pre.Xs)
    /\ View(heap, s) = last.pre

(***************************************************************************)
(* C6: Copy returns a Sample with equal Xs, equal Weights (absent iff the  *)
(* original's are) and the same Sorted flag, in storage of its own: Sort   *)
(* and element writes on the copy leave the original as it was, and the    *)
(* other way round.                                                        *)
(***************************************************************************)
CopyIsIndependent ==
    /\ [](last.op = "Copy"
            => /\ View(heap, c) = last.pre
               /\ c.Xs # s.Xs
               /\ c.Weights # NilAddr => c.Weights # s.Weights)
    /\ [][(last'.op \in MutatorOps /\ c.Xs # NilAddr)
            => IF last'.on = "c"
               THEN s' = s /\ View(heap', s') = View(heap, s)
               ELSE c' = c /\ View(heap', c') = View(heap, c)]_vars

(* C6 witness: Sort reordered the copy while the original stays out of     *)
(* order and unflagged.                                                    *)
CopySortedAloneWitness ==
    /\ last.op = "Sort"
    /\ last.on = "c"
    /\ View(heap, c).Xs # last.pre.Xs
    /\ View(heap, c).Weights # last.pre.Weights
    /\ ~s.Sorted
    /\ XsOf(heap, s) = last.pre.Xs

(***************************************************************************)
(* C7: Sort of a Sample with Sorted == false leaves Xs non-decreasing,     *)
(* Sorted true and the multiset of (value, weight) pairs as it was.        *)
(***************************************************************************)
SortSortsAndKeepsPairs ==
    (last.op = "Sort" /\ ~last.pre.Sorted)
    => /\ NonDecreasing(View(heap, Recv(last.on)).Xs)
       /\ View(heap, Recv(last.on)).Sorted
       /\ SamePairs(last.pre, View(heap, Recv(last.on)))

(***************************************************************************)
(* C8: Percentile(p) of a weighted Sample of positive total weight equals  *)
(* Percentile(p) of the Sample with every zero-weight entry deleted, and   *)
(* the value returned is the value of an entry of non-zero weight.         *)
(***************************************************************************)
PercentileIgnoresZeroWeights ==
    (/\ last.op = "Percentile"
     /\ last.pre.HasW
     /\ FGt(TotalWeight(last.pre), Zero))
    => /\ last.ret[1] = PercentileOfView(DropZero(last.pre), last.p)
       /\ last.ret[1] \in Supported(last.pre)

(***************************************************************************)
(* C9: IQR of a non-empty Sample of finite values and positive total       *)
(* weight is >= 0, sorted or not.                                          *)
(***************************************************************************)
IQRNonNegative ==
    (/\ last.op = "IQR"
     /\ Len(last.pre.Xs) > 0
     /\ AllFinite(last.pre.Xs)
     /\ FGt(TotalWeight(last.pre), Zero))
    => FGe(last.ret[1], Zero)

(* C9 witness: IQR of a weighted Sample that is out of order came out      *)
(* positive.                                                               *)
IQRWitness ==
    /\ last.op = "IQR"
    /\ last.pre.HasW
    /\ AllFinite(last.pre.Xs)
    /\ ~last.pre.Sorted
    /\ ~NonDecreasing(last.pre.Xs)
    /\ FGt(last.ret[1], Zero)

(***************************************************************************)
(* C10: in every state reached by Sort, Copy and accessor calls, a Sample  *)
(* flagged Sorted has Xs non-decreasing, Weights are absent or as long as  *)
(* Xs, and Sort of a Sample already flagged Sorted changes nothing.        *)
(***************************************************************************)
SortedFlagIsSound ==
    /\ \A t \in Targets :
         /\ Recv(t).Sorted => NonDecreasing(XsOf(heap, Recv(t)))
         /\ Recv(t).Weights # NilAddr
              => Len(WeightsOf(heap, Recv(t))) = Len(XsOf(heap, Recv(t)))
    /\ (last.op = "Sort" /\ last.pre.Sorted)
         => View(heap, Recv(last.on)) = last.pre

(***************************************************************************)
(* Supporting facts: C7, C8 and C10 hold of weighted Samples whose Xs      *)
(* holds no NaN; they fail only where sampleSorter.Less meets a NaN.       *)
(***************************************************************************)
SortSortsWithoutNaN ==
    (last.pre.HasW => AllFinite(last.pre.Xs)) => SortSortsAndKeepsPairs

PercentileIgnoresZeroWeightsWithoutNaN ==
    AllFinite(last.pre.Xs) => PercentileIgnoresZeroWeights

SortedFlagIsSoundWithoutNaN ==
    (\A a \in Addrs : AllFinite(heap[a])) => SortedFlagIsSound

====
